---- MODULE Spec2Model ----
(***************************************************************************)
(* Record validation of the bank pipeline: DataQualityChecker of           *)
(* src/src/data_quality.py (check_all_quality, get_clean_data), and its    *)
(* risk monitoring: RiskMonitor of src/src/monitoring_audit.py             *)
(* (log_violation, check_all_risks), and the quality run on a directory:   *)
(* main, load_and_cleanup_files and save_clean_data of data_quality.py,    *)
(* followed by the risk run, main of monitoring_audit.py, and the checker  *)
(* of the database: DataQualityChecker.run_all_checks of                   *)
(* src/src/data_quality_standards.py.                                      *)
(*                                                                         *)
(* Python values.  A dict is a record whose DOMAIN is the dict's key set   *)
(* (a missing key is a missing field).  The value stored under a key is    *)
(* None or Val(x).  A string is the tuple of its character codes, a digit  *)
(* being its own code 0..9, so '' is << >> and Val('') is EmptyStr.  A     *)
(* list is a sequence; Python's `x in list` and `==` on dicts compare by   *)
(* value, which is equality of records here.                               *)
(***************************************************************************)
EXTENDS Integers, Sequences, FiniteSets, TLC

VARIABLES
    store,            \* the persisted tables, each the collection of its rows
    data,             \* self.data: data type -> list of records
    data_keys,        \* the insertion order of the keys of self.data
    quality_issues,   \* self.quality_issues
    failed_records,   \* self.failed_records: data type -> list of records
    clean_data,       \* the dict last returned by get_clean_data
    ret,              \* last return value of check_all_quality
    pc,               \* the last call made on the checker and how it ended
    run,              \* 1: checker on a loaded batch; 2: on a clean output
    risk_data,        \* self.data of the RiskMonitor
    violations,       \* self.violations
    violation_id,     \* self.violation_id
    risk_ret,         \* last return value of check_all_risks
    passes,           \* the calls of check_all_risks made on the monitor
    files,            \* the JSON files of the input directory: name -> content
    undeletable,      \* the files of the directory that os.remove fails on
    exit_status,      \* None, or the exit status of the quality run
    dir_exists,       \* os.path.exists of the input directory
    risk_exit_status  \* None, or the exit status of the risk run

\* the variables of the DataQualityChecker and those of the RiskMonitor
checker_vars == <<store, data, data_keys, quality_issues, failed_records,
                  clean_data, ret, pc, run>>

monitor_vars == <<risk_data, violations, violation_id, risk_ret, passes>>

main_vars == <<files, undeletable, exit_status, dir_exists, risk_exit_status>>

vars == <<checker_vars, monitor_vars, main_vars>>

-----------------------------------------------------------------------------
(* Bounds of the model *)

\* most records of one batch, over all data types together
MaxRecords == 2

-----------------------------------------------------------------------------
(* Python values *)

None == << >>
Val(x) == <<x>>
EmptyStr == Val(<< >>)

\* the fields that hold strings; every other field holds a number or a flag
StringFields == {"NationalID", "Name", "Username"}

\* an empty dict
EmptyDict == [k \in {} |-> << >>]

\* x in lst
In(x, lst) == \E j \in 1..Len(lst) : lst[j] = x

\* dict.get(field, default)
Get(item, field, default) ==
    IF field \in DOMAIN item THEN item[field] ELSE default

\* the order of dependency of the data types
DataTypes == <<"customers", "devices", "accounts", "transactions", "auth_logs">>

-----------------------------------------------------------------------------
(* Sample values of the batch *)

NID_A == <<1, 2, 3, 4, 5, 6, 7, 8, 9, 0, 1, 2>>
NID_B == <<9, 8, 7, 6, 5, 4, 3, 2, 1, 0, 9, 8>>
STR_5 == <<1, 2, 3, 4, 5>>
USER_U == <<30, 31>>
NAME_N == <<23>>

CustomerPool ==
    {[CustomerID |-> Val(i), NationalID |-> Val(n), Name |-> m, Username |-> u] :
        i \in {1, 2}, n \in {NID_A, NID_B, STR_5},
        m \in {Val(NAME_N), EmptyStr}, u \in {Val(USER_U), Val(STR_5)}}
    \cup
    {[CustomerID |-> Val(i), Name |-> m, Username |-> u] :
        i \in {1, 2},
        m \in {Val(NAME_N), EmptyStr}, u \in {Val(USER_U), Val(STR_5)}}

DevicePool ==
    {[DeviceID |-> Val(1), CustomerID |-> Val(1), IsVerified |-> Val(v)] :
        v \in BOOLEAN}

AccountPool ==
    {[AccountID |-> Val(i), CustomerID |-> c, Balance |-> b] :
        i \in {1, 2}, c \in {Val(1), None}, b \in {Val(-1), Val(0), None}}
    \cup
    {[AccountID |-> Val(i), CustomerID |-> c] :
        i \in {1, 2}, c \in {Val(1), None}}

TransactionPool ==
    {[TransactionID |-> Val(1), FromAccountID |-> f, ToAccountID |-> Val(2),
      Amount |-> a] :
        f \in {Val(1), None}, a \in {Val(0), Val(5), None}}
    \cup
    {[TransactionID |-> Val(1), FromAccountID |-> f, Amount |-> a] :
        f \in {Val(1), None}, a \in {Val(0), Val(5), None}}

AuthLogPool ==
    {[AuthLogID |-> Val(1), CustomerID |-> Val(1), DeviceID |-> Val(1),
      AuthMethod |-> Val("Password"), AuthStatus |-> Val("SUCCESS")]}

\* the rows of the production tables written by earlier promotions
PersistedStore ==
    [Customer |-> {[CustomerID |-> 2, NationalID |-> NID_A, Username |-> USER_U]},
     Account |-> {[AccountID |-> 2]},
     Device |-> {[DeviceID |-> 1]}]

-----------------------------------------------------------------------------
(* DataQualityChecker.check_all_quality, the field checks *)

critical_fields ==
    << [data_type |-> "customers",
        fields |-> <<"NationalID", "Name", "Username">>],
       [data_type |-> "accounts",
        fields |-> <<"CustomerID", "Balance">>],
       [data_type |-> "transactions",
        fields |-> <<"Amount", "FromAccountID", "ToAccountID">>] >>

\* field not in item or item[field] is None or item[field] == ''
IsNullValue(item, field) ==
    \/ field \notin DOMAIN item
    \/ item[field] = None
    \/ field \in StringFields /\ item[field] = EmptyStr

\* f"NULL value in {data_type}.{field}"
NullIssue(data_type, field) ==
    [kind |-> "NULL value", data_type |-> data_type, field |-> field]

\* the issues of the loop over the critical fields of one item
NullIssues(data_type, item, fields) ==
    LET missing == SelectSeq(fields, LAMBDA f : IsNullValue(item, f))
    IN  [k \in 1..Len(missing) |-> NullIssue(data_type, missing[k])]

\* item.get('Balance', 0) < 0 and item.get('Amount', 0) <= 0 compare None
\* with a number when the key holds None: Python raises TypeError
ComparisonRaises(item, field) == Get(item, field, Val(0)) = None

NegativeBalance(item) == Get(item, "Balance", Val(0))[1] < 0

\* mutant of InvalidAmount: the comparison is < where the code has <=
InvalidAmountNegativeOnly(item) == Get(item, "Amount", Val(0))[1] < 0

InvalidAmount(item) == Get(item, "Amount", Val(0))[1] <= 0

\* f"Negative balance in account {item.get('AccountID')}"
BalanceIssue(item) ==
    [kind |-> "Negative balance", id |-> Get(item, "AccountID", None)]

\* f"Invalid amount in transaction {item.get('TransactionID')}"
AmountIssue(item) ==
    [kind |-> "Invalid amount", id |-> Get(item, "TransactionID", None)]

\* the body of the loop over the items of one data type: the issues it
\* appends, has_issue, and whether a comparison raised
CheckItem(data_type, item, fields) ==
    LET nulls == NullIssues(data_type, item, fields)
        raises ==
            \/ data_type = "accounts" /\ ComparisonRaises(item, "Balance")
            \/ data_type = "transactions" /\ ComparisonRaises(item, "Amount")
        rule ==
            IF raises THEN << >>
            ELSE IF data_type = "accounts" /\ NegativeBalance(item)
                 THEN <<BalanceIssue(item)>>
            ELSE IF data_type = "transactions" /\ InvalidAmount(item)
                 THEN <<AmountIssue(item)>>
            ELSE << >>
    IN  [issues |-> nulls \o rule,
         has_issue |-> Len(nulls \o rule) > 0,
         raised |-> raises]

\* mutant of MarkFailed: the record is appended without its TransactionID,
\* AccountID and CustomerID
MarkFailedStripped(failed, item, has_issue) ==
    IF has_issue
    THEN Append(failed,
                [f \in DOMAIN item \ {"TransactionID", "AccountID",
                                       "CustomerID"} |-> item[f]])
    ELSE failed

\* mutant of MarkFailed: the append is made outside of `if has_issue`
MarkFailedAlways(failed, item, has_issue) == Append(failed, item)

\* if has_issue: self.failed_records[data_type].append(item)
MarkFailed(failed, item, has_issue) ==
    IF has_issue THEN Append(failed, item) ELSE failed

\* for item in self.data[data_type], from item k on;
\* acc = [issues, failed, raised]
RECURSIVE CheckItems(_, _, _, _, _)
CheckItems(data_type, fields, items, k, acc) ==
    IF k > Len(items) \/ acc.raised THEN acc
    ELSE LET r == CheckItem(data_type, items[k], fields)
         IN  CheckItems(data_type, fields, items, k + 1,
                [issues |-> acc.issues \o r.issues,
                 failed |-> IF r.raised THEN acc.failed
                            ELSE MarkFailed(acc.failed, items[k], r.has_issue),
                 raised |-> r.raised])

\* for data_type, fields in critical_fields.items(), from entry k on;
\* acc = [issues, failed_records, raised]
RECURSIVE FieldChecks(_, _, _)
FieldChecks(d, k, acc) ==
    IF k > Len(critical_fields) \/ acc.raised THEN acc
    ELSE LET cf == critical_fields[k]
         IN  IF cf.data_type \notin DOMAIN d THEN FieldChecks(d, k + 1, acc)
             ELSE LET r == CheckItems(cf.data_type, cf.fields,
                                      d[cf.data_type], 1,
                                      [issues |-> acc.issues,
                                       failed |-> << >>,
                                       raised |-> FALSE])
                  IN  FieldChecks(d, k + 1,
                         [issues |-> r.issues,
                          failed_records |->
                              (cf.data_type :> r.failed) @@ acc.failed_records,
                          raised |-> r.raised])

-----------------------------------------------------------------------------
(* DataQualityChecker.check_all_quality, the duplicates of customers *)

\* field in customer and customer[field]
Truthy(item, field) ==
    /\ field \in DOMAIN item
    /\ item[field] # None
    /\ item[field] # EmptyStr

\* f"Duplicate {field}: {value}"
DuplicateIssue(field, value) ==
    [kind |-> "Duplicate", field |-> field, value |-> value]

\* mutant of DuplicateField: the first occurrence is not appended to the
\* failed records
DuplicateFieldLaterOnly(customers, i, field, acc) ==
    LET customer == customers[i]
    IN  IF ~Truthy(customer, field) THEN acc
        ELSE LET value == customer[field]
             IN  IF value \in DOMAIN acc.seen_values
                 THEN [seen_values |-> acc.seen_values,
                       issues |-> Append(acc.issues,
                                         DuplicateIssue(field, value)),
                       failed |-> IF In(customer, acc.failed) THEN acc.failed
                                  ELSE Append(acc.failed, customer)]
                 ELSE [acc EXCEPT !.seen_values = (value :> i) @@ @]

\* the body of the loop over ['NationalID', 'Username'] for customer i
\* (counted from 1); acc = [seen_values, issues, failed]
DuplicateField(customers, i, field, acc) ==
    LET customer == customers[i]
    IN  IF ~Truthy(customer, field) THEN acc
        ELSE LET value == customer[field]
             IN  IF value \in DOMAIN acc.seen_values
                 THEN LET original == customers[acc.seen_values[value]]
                          f1 == IF In(original, acc.failed) THEN acc.failed
                                ELSE Append(acc.failed, original)
                          f2 == IF In(customer, f1) THEN f1
                                ELSE Append(f1, customer)
                      IN  [seen_values |-> acc.seen_values,
                           issues |-> Append(acc.issues,
                                             DuplicateIssue(field, value)),
                           failed |-> f2]
                 ELSE [acc EXCEPT !.seen_values = (value :> i) @@ @]

\* mutant of DuplicateChecks: the loop is over ['NationalID'] alone
RECURSIVE DuplicateChecksNationalIdOnly(_, _, _)
DuplicateChecksNationalIdOnly(customers, i, acc) ==
    IF i > Len(customers) THEN acc
    ELSE DuplicateChecksNationalIdOnly(customers, i + 1,
            DuplicateField(customers, i, "NationalID", acc))

\* for i, customer in enumerate(self.data['customers']), from customer i on
RECURSIVE DuplicateChecks(_, _, _)
DuplicateChecks(customers, i, acc) ==
    IF i > Len(customers) THEN acc
    ELSE DuplicateChecks(customers, i + 1,
            DuplicateField(customers, i, "Username",
                DuplicateField(customers, i, "NationalID", acc)))

\* check_all_quality on a non-empty self.data: the issues, the failed
\* records and whether the call raised
QualityCheck(d) ==
    LET fc == FieldChecks(d, 1, [issues |-> << >>,
                                 failed_records |-> EmptyDict,
                                 raised |-> FALSE])
    IN  IF fc.raised \/ "customers" \notin DOMAIN d THEN fc
        ELSE LET dc == DuplicateChecks(d["customers"], 1,
                          [seen_values |-> EmptyDict,
                           issues |-> fc.issues,
                           failed |-> fc.failed_records["customers"]])
             IN  [issues |-> dc.issues,
                  failed_records |->
                      ("customers" :> dc.failed) @@ fc.failed_records,
                  raised |-> FALSE]

-----------------------------------------------------------------------------
(* DataQualityChecker.get_clean_data *)

\* mutant of CleanRecords: the comprehension has lost its condition
CleanRecordsKeepsAll(records, failed) == records

\* [record for record in records if record not in failed_records_for_type]
CleanRecords(records, failed) ==
    SelectSeq(records, LAMBDA record : ~In(record, failed))

\* for data_type, records in self.data.items(), from key k on
RECURSIVE CleanData(_, _, _, _, _)
CleanData(d, keys, failed, k, acc) ==
    IF k > Len(keys) THEN acc
    ELSE CleanData(d, keys, failed, k + 1,
            (keys[k] :> CleanRecords(d[keys[k]], Get(failed, keys[k], << >>)))
                @@ acc)

-----------------------------------------------------------------------------
(* The checker as a state machine *)

\* the subsequence of DataTypes of the types in S
RECURSIVE Restrict(_, _)
Restrict(seq, S) ==
    IF seq = << >> THEN << >>
    ELSE IF Head(seq) \in S THEN <<Head(seq)>> \o Restrict(Tail(seq), S)
    ELSE Restrict(Tail(seq), S)

Reverse(seq) == [k \in 1..Len(seq) |-> seq[Len(seq) + 1 - k]]

SetOf(seq) == {seq[k] : k \in 1..Len(seq)}

\* no RiskMonitor has been made
NoMonitor ==
    /\ risk_data = EmptyDict
    /\ violations = << >>
    /\ violation_id = 1
    /\ risk_ret = "none"
    /\ passes = 0

\* no quality run is made on a directory
NoMain ==
    /\ files = EmptyDict
    /\ undeletable = {}
    /\ exit_status = None
    /\ dir_exists = TRUE
    /\ risk_exit_status = None

\* the orders in which the files of a batch are listed
KeyOrders(present) ==
    {Restrict(DataTypes, present), Reverse(DataTypes)}

\* DataQualityChecker(data) for a batch of at most MaxRecords records
Init ==
    /\ store = PersistedStore
    /\ \E nc \in 0..MaxRecords :
       \E nd \in 0..(MaxRecords - nc) :
       \E na \in 0..(MaxRecords - nc - nd) :
       \E nt \in 0..(MaxRecords - nc - nd - na) :
       \E nl \in 0..(MaxRecords - nc - nd - na - nt) :
       \E cs \in [1..nc -> CustomerPool] :
       \E ds \in [1..nd -> DevicePool] :
       \E as \in [1..na -> AccountPool] :
       \E ts \in [1..nt -> TransactionPool] :
       \E ls \in [1..nl -> AuthLogPool] :
          LET batch == [customers |-> cs, devices |-> ds, accounts |-> as,
                        transactions |-> ts, auth_logs |-> ls]
              present == {t \in DOMAIN batch : batch[t] # << >>}
          IN  /\ data_keys \in KeyOrders(present)
              /\ data = [t \in SetOf(data_keys) |-> batch[t]]
    /\ quality_issues = << >>
    /\ failed_records = EmptyDict
    /\ clean_data = EmptyDict
    /\ ret = "none"
    /\ pc = "constructed"
    /\ run = 1
    /\ NoMonitor
    /\ NoMain

CheckAllQuality ==
    /\ pc # "check_raised"
    /\ IF DOMAIN data = {}
       THEN /\ ret' = "False"
            /\ pc' = "check_returned"
            /\ UNCHANGED <<quality_issues, failed_records>>
       ELSE LET r == QualityCheck(data)
            IN  /\ quality_issues' = r.issues
                /\ failed_records' = r.failed_records
                /\ IF r.raised
                   THEN pc' = "check_raised" /\ UNCHANGED ret
                   ELSE /\ pc' = "check_returned"
                        /\ ret' = IF Len(r.issues) > 0 THEN "False" ELSE "True"
    /\ UNCHANGED <<store, data, data_keys, clean_data, run>>
    /\ UNCHANGED monitor_vars
    /\ UNCHANGED main_vars

GetCleanData ==
    /\ pc # "check_raised"
    /\ clean_data' = CleanData(data, data_keys, failed_records, 1, EmptyDict)
    /\ pc' = "clean_returned"
    /\ UNCHANGED <<store, data, data_keys, quality_issues, failed_records,
                   ret, run>>
    /\ UNCHANGED monitor_vars
    /\ UNCHANGED main_vars

\* DataQualityChecker(clean_data): a new checker on the clean output
CheckerOnCleanData ==
    /\ pc = "clean_returned"
    /\ ret # "none"
    /\ run = 1
    /\ data' = clean_data
    /\ quality_issues' = << >>
    /\ failed_records' = EmptyDict
    /\ clean_data' = EmptyDict
    /\ ret' = "none"
    /\ pc' = "constructed"
    /\ run' = 2
    /\ UNCHANGED <<store, data_keys>>
    /\ UNCHANGED monitor_vars
    /\ UNCHANGED main_vars

Next ==
    \/ CheckAllQuality
    \/ GetCleanData
    \/ CheckerOnCleanData

Spec == Init /\ [][Next]_vars

-----------------------------------------------------------------------------
(* RiskMonitor of src/src/monitoring_audit.py                              *)
(*                                                                         *)
(* Rule codes, risk levels, names, methods and statuses are TLA+ strings.  *)
(* A timestamp is the tuple of its characters ('-' is 45, 'T' is 84), as   *)
(* the monitor slices it.  An alert holds the fields that log_violation    *)
(* is given and its ViolationID; its Timestamp (the reading of the clock)  *)
(* and its Description (a text made of the other fields) are left out.     *)

\* most transactions, authentication logs and accounts of one batch, most
\* authentication logs of a batch whose logs differ in device, method and
\* hour, and most calls of check_all_risks on one monitor
MaxTxns == 3
MaxAuthLogs == 4
MaxMethodLogs == 2
MaxAccounts == 2
MaxPasses == 2

\* the thresholds of the rules
HighValueLimit == 10000000
UnverifiedDeviceLimit == 1000000
DailyLimit == 50000000
FailedAuthLimit == 3

\* the truth value of an identifier or of a timestamp: None, 0 and '' are
\* false
TruthyId(v) == v # None /\ v[1] # 0
TruthyText(v) == v # None /\ v[1] # << >>

\* {r[field]: r for r in records}.get(key, {}): the last record wins
MapGet(records, field, key) ==
    LET S == {k \in 1..Len(records) : records[k][field] = key}
    IN  IF S = {} THEN EmptyDict
        ELSE records[CHOOSE k \in S : \A j \in S : j <= k]

\* auth_map.get(customer_id, {}): the last log of the list that has a true
\* CustomerID, equal to customer_id, and AuthStatus 'SUCCESS'
AuthMapGet(auth_logs, customer_id) ==
    LET S == {k \in 1..Len(auth_logs) :
                 /\ TruthyId(Get(auth_logs[k], "CustomerID", None))
                 /\ Get(auth_logs[k], "AuthStatus", None) = Val("SUCCESS")
                 /\ Get(auth_logs[k], "CustomerID", None) = customer_id}
    IN  IF S = {} THEN EmptyDict
        ELSE auth_logs[CHOOSE k \in S : \A j \in S : j <= k]

\* float(txn.get('Amount', 0)); the amounts are whole numbers, which the
\* conversion keeps
AmountOf(txn) == Get(txn, "Amount", Val(0))[1]

\* account_map.get(from_account_id, {})
FromAccount(d, txn) ==
    MapGet(Get(d, "accounts", << >>), "AccountID",
           Get(txn, "FromAccountID", None))

\* from_account.get('CustomerID')
CustomerOf(d, txn) == Get(FromAccount(d, txn), "CustomerID", None)

\* auth_method not in ['Biometric', 'OTP']
WeakMethod(auth_method) == auth_method \notin {Val("Biometric"), Val("OTP")}

\* Rule 1: the alerts of one transaction
Rule1(d, txn) ==
    LET customer_id == CustomerOf(d, txn)
        auth == AuthMapGet(Get(d, "auth_logs", << >>), customer_id)
        auth_method == Get(auth, "AuthMethod", Val(""))
    IN  IF AmountOf(txn) > HighValueLimit /\ WeakMethod(auth_method)
        THEN << [RuleCode |-> "RULE_001", RiskLevel |-> "HIGH",
                 TransactionID |-> Get(txn, "TransactionID", None),
                 CustomerID |-> customer_id,
                 Amount |-> Val(AmountOf(txn)),
                 AuthMethod |-> auth_method] >>
        ELSE << >>

\* Rule 2: the alerts of one transaction
Rule2(d, txn) ==
    LET customer_id == CustomerOf(d, txn)
        customer_devices ==
            SelectSeq(Get(d, "devices", << >>),
                      LAMBDA dv : Get(dv, "CustomerID", None) = customer_id)
        unverified_devices ==
            SelectSeq(customer_devices,
                      LAMBDA dv : ~Get(dv, "IsVerified", Val(FALSE))[1])
    IN  IF /\ TruthyId(customer_id)
           /\ unverified_devices # << >>
           /\ AmountOf(txn) > UnverifiedDeviceLimit
        THEN << [RuleCode |-> "RULE_002", RiskLevel |-> "MEDIUM",
                 TransactionID |-> Get(txn, "TransactionID", None),
                 CustomerID |-> customer_id,
                 DeviceID |-> Get(unverified_devices[1], "DeviceID", None),
                 Amount |-> Val(AmountOf(txn))] >>
        ELSE << >>

\* from_account.get('Balance', 0) < amount
InsufficientBalance(from_account, amount) ==
    Get(from_account, "Balance", Val(0))[1] < amount

\* Rule 3: the alerts of one transaction
Rule3(d, txn) ==
    LET from_account == FromAccount(d, txn)
    IN  IF InsufficientBalance(from_account, AmountOf(txn))
        THEN << [RuleCode |-> "RULE_003", RiskLevel |-> "HIGH",
                 TransactionID |-> Get(txn, "TransactionID", None),
                 CustomerID |-> CustomerOf(d, txn),
                 FromAccountID |-> Get(txn, "FromAccountID", None),
                 Amount |-> Val(AmountOf(txn)),
                 Balance |-> Get(from_account, "Balance", Val(0))] >>
        ELSE << >>

\* for txn in transactions, from transaction k on: the alerts of rules 1
\* to 3, in the order of their emission
RECURSIVE TransactionAlerts(_, _)
TransactionAlerts(d, k) ==
    IF k > Len(Get(d, "transactions", << >>)) THEN << >>
    ELSE LET txn == d["transactions"][k]
         IN  Rule1(d, txn) \o Rule2(d, txn) \o Rule3(d, txn)
                 \o TransactionAlerts(d, k + 1)

\* txn['Timestamp'][:10]
DateKey(timestamp) ==
    SubSeq(timestamp, 1, IF Len(timestamp) < 10 THEN Len(timestamp) ELSE 10)

\* daily_totals after the loop over the transactions, from transaction k
\* on; acc = [keys, total], keys being the keys in the order of insertion
RECURSIVE DailyTotals(_, _, _)
DailyTotals(d, k, acc) ==
    IF k > Len(Get(d, "transactions", << >>)) THEN acc
    ELSE LET txn == d["transactions"][k]
             customer_id == CustomerOf(d, txn)
             timestamp == Get(txn, "Timestamp", None)
         IN  IF TruthyId(customer_id) /\ TruthyText(timestamp)
             THEN LET key == <<customer_id, DateKey(timestamp[1])>>
                  IN  DailyTotals(d, k + 1,
                         IF key \in DOMAIN acc.total
                         THEN [acc EXCEPT !.total[key] = @ + AmountOf(txn)]
                         ELSE [keys |-> Append(acc.keys, key),
                               total |-> (key :> AmountOf(txn)) @@ acc.total])
             ELSE DailyTotals(d, k + 1, acc)

\* customer_map.get(customer_id, {}).get('Name', 'Unknown')
CustomerName(d, customer_id) ==
    Get(MapGet(Get(d, "customers", << >>), "CustomerID", customer_id),
        "Name", Val("Unknown"))

\* mutant of ExceedsDailyLimit: the comparison is >= where the code has >
ReachesDailyLimit(daily_total) == daily_total >= DailyLimit

\* daily_total > 50000000
ExceedsDailyLimit(daily_total) == daily_total > DailyLimit

\* Rule 4: the alerts of the loop over daily_totals.items(), from key k on
RECURSIVE Rule4(_, _, _)
Rule4(d, totals, k) ==
    IF k > Len(totals.keys) THEN << >>
    ELSE LET key == totals.keys[k]
             daily_total == totals.total[key]
         IN  (IF ExceedsDailyLimit(daily_total)
              THEN << [RuleCode |-> "RULE_004", RiskLevel |-> "HIGH",
                       CustomerID |-> key[1],
                       CustomerName |-> CustomerName(d, key[1]),
                       Date |-> Val(key[2]),
                       DailyTotal |-> Val(daily_total)] >>
              ELSE << >>) \o Rule4(d, totals, k + 1)

\* failed_auths after the loop over the authentication logs, from log k
\* on; acc = [keys, count], keys being the keys in the order of insertion
RECURSIVE FailedAuths(_, _, _)
FailedAuths(auth_logs, k, acc) ==
    IF k > Len(auth_logs) THEN acc
    ELSE IF Get(auth_logs[k], "AuthStatus", None) = Val("FAIL")
         THEN LET customer_id == Get(auth_logs[k], "CustomerID", None)
              IN  FailedAuths(auth_logs, k + 1,
                     IF customer_id \in DOMAIN acc.count
                     THEN [acc EXCEPT !.count[customer_id] = @ + 1]
                     ELSE [keys |-> Append(acc.keys, customer_id),
                           count |-> (customer_id :> 1) @@ acc.count])
         ELSE FailedAuths(auth_logs, k + 1, acc)

\* mutant of TooManyFailures: the comparison is > where the code has >=
MoreThanLimitFailures(fail_count) == fail_count > FailedAuthLimit

\* fail_count >= 3
TooManyFailures(fail_count) == fail_count >= FailedAuthLimit

\* Rule 5: the alerts of the loop over failed_auths.items(), from key k on
RECURSIVE Rule5(_, _, _)
Rule5(d, fails, k) ==
    IF k > Len(fails.keys) THEN << >>
    ELSE LET customer_id == fails.keys[k]
             fail_count == fails.count[customer_id]
         IN  (IF TooManyFailures(fail_count)
              THEN << [RuleCode |-> "RULE_005", RiskLevel |-> "MEDIUM",
                       CustomerID |-> customer_id,
                       CustomerName |-> CustomerName(d, customer_id),
                       FailedAttempts |-> Val(fail_count)] >>
              ELSE << >>) \o Rule5(d, fails, k + 1)

\* the calls of log_violation of one check_all_risks, in their order
RiskAlerts(d) ==
    TransactionAlerts(d, 1)
        \o Rule4(d, DailyTotals(d, 1, [keys |-> << >>, total |-> EmptyDict]), 1)
        \o Rule5(d, FailedAuths(Get(d, "auth_logs", << >>), 1,
                                [keys |-> << >>, count |-> EmptyDict]), 1)

\* mutant of LogViolation: self.violation_id is not incremented
LogViolationSameId(m, alert) ==
    [violations |->
         Append(m.violations, ("ViolationID" :> m.violation_id) @@ alert),
     violation_id |-> m.violation_id]

\* log_violation on a monitor m = [violations, violation_id]
LogViolation(m, alert) ==
    [violations |->
         Append(m.violations, ("ViolationID" :> m.violation_id) @@ alert),
     violation_id |-> m.violation_id + 1]

\* log_violation for each alert of alerts, from alert k on
RECURSIVE LogViolations(_, _, _)
LogViolations(m, alerts, k) ==
    IF k > Len(alerts) THEN m
    ELSE LogViolations(LogViolation(m, alerts[k]), alerts, k + 1)

-----------------------------------------------------------------------------
(* The monitor as a state machine *)

\* 'YYYY-MM-DDTHH' of a day and an hour of January 2024
TimestampOf(day, hour) == <<2, 0, 2, 4, 45, 0, 1, 45, 0, day, 84, 0, hour>>

RiskCustomer(id, name) == [CustomerID |-> Val(id), Name |-> Val(name)]

RiskAccount(id, customer, balance) ==
    [AccountID |-> Val(id), CustomerID |-> Val(customer),
     Balance |-> Val(balance)]

RiskDevice(id, customer, verified) ==
    [DeviceID |-> Val(id), CustomerID |-> Val(customer),
     IsVerified |-> Val(verified)]

RiskTxn(amount, from, device, day) ==
    [Amount |-> Val(amount), FromAccountID |-> Val(from),
     ToAccountID |-> Val(2), DeviceID |-> Val(device),
     Timestamp |-> Val(TimestampOf(day, 1))]

RiskAuth(customer, device, method, status, hour) ==
    [CustomerID |-> Val(customer), DeviceID |-> Val(device),
     AuthMethod |-> Val(method), AuthStatus |-> Val(status),
     Timestamp |-> Val(TimestampOf(1, hour))]

\* the lists of at most n members of pool
ListsUpTo(pool, n) == UNION {[1..k -> pool] : k \in 0..n}

\* the records of a list, numbered in field by their position
Numbered(records, field) ==
    [k \in 1..Len(records) |-> (field :> Val(k)) @@ records[k]]

BaseCustomers == <<RiskCustomer(1, "An"), RiskCustomer(2, "Binh")>>

\* accounts 1 and 3 are of customer 1, account 2 is of customer 2
BaseAccounts ==
    <<RiskAccount(1, 1, 100000000), RiskAccount(2, 2, 100000000),
      RiskAccount(3, 1, 100000000)>>

BaseDevices == <<RiskDevice(1, 1, TRUE), RiskDevice(2, 1, TRUE)>>

RiskBatch(accounts, devices, txns, auth_logs) ==
    [customers |-> BaseCustomers, accounts |-> accounts, devices |-> devices,
     transactions |-> Numbered(txns, "TransactionID"),
     auth_logs |-> Numbered(auth_logs, "AuthLogID")]

\* batches of authentication logs of two customers, failed or not
FailurePool ==
    {RiskAuth(c, 1, "Password", st, 1) : c \in {1, 2}, st \in {"SUCCESS", "FAIL"}}

FailureBatches ==
    {RiskBatch(BaseAccounts, BaseDevices, << >>, ls) :
        ls \in ListsUpTo(FailurePool, MaxAuthLogs)}

\* batches of one transaction of customer 1 and of authentication logs of
\* that customer, on two devices, by two methods, at two hours
MethodPool ==
    {RiskAuth(1, dv, m, "SUCCESS", h) :
        dv \in {1, 2}, m \in {"OTP", "Password"}, h \in {1, 2}}
    \cup {RiskAuth(1, 1, "OTP", "FAIL", 2)}

MethodBatches ==
    {RiskBatch(BaseAccounts, BaseDevices, <<RiskTxn(a, 1, dv, 1)>>, ls) :
        a \in {HighValueLimit, 30000000}, dv \in {1, 2},
        ls \in ListsUpTo(MethodPool, MaxMethodLogs)}

\* batches of one transaction and of two devices, each of customer 1 or 2,
\* verified or not
DeviceBatches ==
    {RiskBatch(BaseAccounts,
               <<RiskDevice(1, c[1], v[1]), RiskDevice(2, c[2], v[2])>>,
               <<RiskTxn(a, from, dv, 1)>>, << >>) :
        c \in [1..2 -> {1, 2}], v \in [1..2 -> BOOLEAN],
        a \in {500000, UnverifiedDeviceLimit, 30000000},
        from \in {1, 2}, dv \in {1, 2}}

\* batches of one transaction and of accounts 1 and 2, whose balances are
\* one of its amounts, or that have no Balance
BalancePool ==
    {RiskAccount(id, id, b) : id \in {1, 2}, b \in {10000000, 30000000}}
    \cup {[AccountID |-> Val(1), CustomerID |-> Val(1)]}

BalanceBatches ==
    {RiskBatch(as, BaseDevices, <<RiskTxn(a, from, 1, 1)>>, << >>) :
        as \in ListsUpTo(BalancePool, MaxAccounts),
        a \in {10000000, 30000000}, from \in {1, 2}}

\* batches of transactions of two days from accounts 1 to 3, one without
\* Timestamp and one from an account that the batch does not have, and of
\* a strong authentication of customer 1 or none
DailyPool ==
    {RiskTxn(a, 1, 1, day) : a \in {25000000, 30000000}, day \in {1, 2}}
    \cup {RiskTxn(30000000, 3, 1, 1), RiskTxn(30000000, 2, 1, 1),
          [Amount |-> Val(30000000), FromAccountID |-> Val(1),
           ToAccountID |-> Val(2), DeviceID |-> Val(1)],
          RiskTxn(30000000, 4, 1, 1)}

DailyBatches ==
    {RiskBatch(BaseAccounts, BaseDevices, ts, ls) :
        ts \in ListsUpTo(DailyPool, MaxTxns),
        ls \in {<< >>, <<RiskAuth(1, 1, "OTP", "SUCCESS", 1)>>}}

\* no DataQualityChecker has been made
NoChecker ==
    /\ store = PersistedStore
    /\ data = EmptyDict
    /\ data_keys = << >>
    /\ quality_issues = << >>
    /\ failed_records = EmptyDict
    /\ clean_data = EmptyDict
    /\ ret = "none"
    /\ pc = "no_checker"
    /\ run = 1

\* RiskMonitor(data) for a batch
InitRisk ==
    /\ NoChecker
    /\ risk_data \in FailureBatches \cup MethodBatches \cup DeviceBatches
                         \cup BalanceBatches \cup DailyBatches
    /\ violations = << >>
    /\ violation_id = 1
    /\ risk_ret = "none"
    /\ passes = 0
    /\ NoMain

CheckAllRisks ==
    /\ passes < MaxPasses
    /\ LET m == LogViolations([violations |-> violations,
                               violation_id |-> violation_id],
                              RiskAlerts(risk_data), 1)
       IN  /\ violations' = m.violations
           /\ violation_id' = m.violation_id
           /\ risk_ret' = IF Len(m.violations) = 0 THEN "True" ELSE "False"
    /\ passes' = passes + 1
    /\ UNCHANGED risk_data
    /\ UNCHANGED checker_vars
    /\ UNCHANGED main_vars

NextRisk == CheckAllRisks

SpecRisk == InitRisk /\ [][NextRisk]_vars

-----------------------------------------------------------------------------
(* The quality run on a directory: main of src/src/data_quality.py        *)
(*                                                                         *)
(* The directory is the function files from the table name of each of its  *)
(* JSON files to the content of the file; failed_records.json is the name  *)
(* "failed_records".  The steps of main are told apart by pc.  The risk    *)
(* run, main of src/src/monitoring_audit.py, is made on the directory      *)
(* after a quality run that exited with status 0, as the tasks of          *)
(* src/dags/bank_data_pipeline.py are ordered, or on a missing directory.  *)

\* the records of the files of a run
MainPool ==
    [customers |->
         {c \in CustomerPool :
             /\ "NationalID" \in DOMAIN c /\ c.NationalID = Val(NID_A)
             /\ c.CustomerID = Val(1) /\ c.Username = Val(USER_U)},
     devices |-> {dv \in DevicePool : dv.IsVerified = Val(TRUE)},
     accounts |->
         {a \in AccountPool :
             /\ "Balance" \in DOMAIN a
             /\ a.AccountID = Val(1) /\ a.CustomerID = Val(1)},
     transactions |->
         {t \in TransactionPool :
             /\ t.FromAccountID = Val(1)
             /\ "ToAccountID" \in DOMAIN t \/ t.Amount = Val(5)},
     auth_logs |-> AuthLogPool]

\* convert_datetime: the records read by json.load hold no datetime, and
\* every other value is returned as it is
ConvertDatetime(obj) == obj

\* failed_data and any(failed_data.values()), failed_data being the dict of
\* checker.failed_records and checker.quality_issues
FailedLogWritten(failed, issues) == DOMAIN failed # {} \/ issues # << >>

\* mutant of SaveCleanData: the file is written without `if records:`
SaveCleanDataAlways(dir, clean, failed, issues) ==
    LET saved == [t \in DOMAIN clean |-> ConvertDatetime(clean[t])]
        log == IF FailedLogWritten(failed, issues)
               THEN "failed_records" :>
                        [failed_records |-> failed, issues |-> issues]
               ELSE EmptyDict
    IN  log @@ saved @@ dir

\* save_clean_data(clean_data, input_dir, failed_data): the directory after
\* the call
SaveCleanData(dir, clean, failed, issues) ==
    LET written == {t \in DOMAIN clean : clean[t] # << >>}
        saved == [t \in written |-> ConvertDatetime(clean[t])]
        log == IF FailedLogWritten(failed, issues)
               THEN "failed_records" :>
                        [failed_records |-> failed, issues |-> issues]
               ELSE EmptyDict
    IN  log @@ saved @@ dir

\* a directory of at most MaxRecords records, in files that hold a record
\* each, some of which cannot be deleted, or no directory
InitMain ==
    /\ store = PersistedStore
    /\ \E nc \in 0..MaxRecords :
       \E nd \in 0..(MaxRecords - nc) :
       \E na \in 0..(MaxRecords - nc - nd) :
       \E nt \in 0..(MaxRecords - nc - nd - na) :
       \E nl \in 0..(MaxRecords - nc - nd - na - nt) :
       \E cs \in [1..nc -> MainPool.customers] :
       \E ds \in [1..nd -> MainPool.devices] :
       \E as \in [1..na -> MainPool.accounts] :
       \E ts \in [1..nt -> MainPool.transactions] :
       \E ls \in [1..nl -> MainPool.auth_logs] :
          LET batch == [customers |-> cs, devices |-> ds, accounts |-> as,
                        transactions |-> ts, auth_logs |-> ls]
              present == {t \in DOMAIN batch : batch[t] # << >>}
          IN  /\ dir_exists \in BOOLEAN
              /\ files = IF dir_exists THEN [t \in present |-> batch[t]]
                         ELSE EmptyDict
              /\ undeletable \in IF dir_exists THEN SUBSET present ELSE {{}}
    /\ data = EmptyDict
    /\ data_keys = << >>
    /\ quality_issues = << >>
    /\ failed_records = EmptyDict
    /\ clean_data = EmptyDict
    /\ ret = "none"
    /\ pc = "main_started"
    /\ run = 1
    /\ exit_status = None
    /\ risk_exit_status = None
    /\ NoMonitor

\* if not os.path.exists(input_dir): sys.exit(1)
MainMissingDir ==
    /\ pc = "main_started"
    /\ ~dir_exists
    /\ exit_status = None
    /\ exit_status' = Val(1)
    /\ UNCHANGED <<files, undeletable, dir_exists, risk_exit_status>>
    /\ UNCHANGED checker_vars
    /\ UNCHANGED monitor_vars

\* data_dict = load_and_cleanup_files(input_dir) and
\* checker = DataQualityChecker(data_dict)
LoadAndCleanupFiles ==
    /\ pc = "main_started"
    /\ dir_exists
    /\ data' = files
    /\ data_keys' = Restrict(DataTypes, DOMAIN files)
    /\ files' = [t \in DOMAIN files \cap undeletable |-> files[t]]
    /\ pc' = "constructed"
    /\ UNCHANGED <<store, quality_issues, failed_records, clean_data, ret,
                   run, undeletable, exit_status, dir_exists,
                   risk_exit_status>>
    /\ UNCHANGED monitor_vars

\* success = checker.check_all_quality()
MainCheckAllQuality == pc = "constructed" /\ CheckAllQuality

\* the TypeError of check_all_quality is not caught: main ends with a
\* traceback and the interpreter exits with status 1
MainUncaught ==
    /\ pc = "check_raised"
    /\ exit_status = None
    /\ exit_status' = Val(1)
    /\ UNCHANGED <<files, undeletable, dir_exists, risk_exit_status>>
    /\ UNCHANGED checker_vars
    /\ UNCHANGED monitor_vars

\* clean_data = checker.get_clean_data()
MainGetCleanData == pc = "check_returned" /\ GetCleanData

\* save_clean_data(clean_data, input_dir, failed_data) and sys.exit(0)
MainSaveAndExit ==
    /\ pc = "clean_returned"
    /\ exit_status = None
    /\ files' = SaveCleanData(files, clean_data, failed_records,
                              quality_issues)
    /\ exit_status' = Val(0)
    /\ UNCHANGED <<undeletable, dir_exists, risk_exit_status>>
    /\ UNCHANGED checker_vars
    /\ UNCHANGED monitor_vars

\* float(txn.get('Amount', 0)) of a null Amount, or the comparison of a
\* null Balance with the amount, raises TypeError
RiskRaises(d) ==
    \E k \in 1..Len(Get(d, "transactions", << >>)) :
        \/ Get(d["transactions"][k], "Amount", Val(0)) = None
        \/ Get(FromAccount(d, d["transactions"][k]), "Balance", Val(0)) = None

\* the number of alerts whose field has a value
CountBy(alerts, field, value) ==
    Cardinality({i \in 1..Len(alerts) : alerts[i][field] = value})

\* the summary of the alerts, without its generated_at
RiskSummary(alerts) ==
    [total_violations |-> Len(alerts),
     by_risk_level |->
         [l \in {alerts[i].RiskLevel : i \in 1..Len(alerts)} |->
             CountBy(alerts, "RiskLevel", l)],
     by_rule |->
         [r \in {alerts[i].RuleCode : i \in 1..Len(alerts)} |->
             CountBy(alerts, "RuleCode", r)]]

\* main of monitoring_audit.py on the directory that the quality run has
\* left: load_json_files, RiskMonitor(data), check_all_risks and the files
\* risk_violations.json and risk_summary.json
RiskMain ==
    /\ dir_exists
    /\ exit_status = Val(0)
    /\ risk_exit_status = None
    /\ risk_data' = files
    /\ IF RiskRaises(files)
       THEN /\ risk_exit_status' = Val(1)
            /\ UNCHANGED <<violations, violation_id, risk_ret, passes, files>>
       ELSE LET m == LogViolations([violations |-> << >>, violation_id |-> 1],
                                   RiskAlerts(files), 1)
            IN  /\ violations' = m.violations
                /\ violation_id' = m.violation_id
                /\ risk_ret' = IF Len(m.violations) = 0 THEN "True"
                               ELSE "False"
                /\ passes' = 1
                /\ files' = IF m.violations # << >>
                            THEN ("risk_violations" :> m.violations)
                                     @@ ("risk_summary" :>
                                             RiskSummary(m.violations))
                                     @@ files
                            ELSE files
                /\ risk_exit_status' = Val(0)
    /\ UNCHANGED <<undeletable, exit_status, dir_exists>>
    /\ UNCHANGED checker_vars

\* if not os.path.exists(args.dir): return, which ends the interpreter
\* with status 0
RiskMainMissingDir ==
    /\ ~dir_exists
    /\ risk_exit_status = None
    /\ risk_exit_status' = Val(0)
    /\ UNCHANGED <<files, undeletable, exit_status, dir_exists>>
    /\ UNCHANGED checker_vars
    /\ UNCHANGED monitor_vars

NextMain ==
    \/ MainMissingDir
    \/ LoadAndCleanupFiles
    \/ MainCheckAllQuality
    \/ MainUncaught
    \/ MainGetCleanData
    \/ MainSaveAndExit
    \/ RiskMain
    \/ RiskMainMissingDir

SpecMain == InitMain /\ [][NextMain]_vars

(***************************************************************************)
(* The checker of the database, src/src/data_quality_standards.py.  Here   *)
(* store is the database: a record from the name of a table to the list of *)
(* its rows.  A row has every column of the checks; a column is NULL       *)
(* (None) or holds a value.  The tables of the schema exist, so no query   *)
(* of a check fails; the table data_quality_log exists or not.  The        *)
(* columns log_id and check_timestamp of data_quality_log, filled by their *)
(* defaults, are left out.  A Timestamp is counted in days from NOW().     *)
(***************************************************************************)
StandardsPool ==
    [Customer |->
         {[CustomerID |-> Val(i), NationalID |-> n, Name |-> Val(NAME_N),
           Username |-> Val(USER_U)] : i \in {1, 2}, n \in {Val(NID_A), None}},
     Device |->
         {[DeviceID |-> Val(1), CustomerID |-> Val(c)] : c \in {1, 3}},
     Account |->
         {[AccountID |-> Val(1), CustomerID |-> c, Balance |-> b] :
             c \in {Val(1), None}, b \in {Val(0), Val(-1)}},
     Transaction |->
         {[TransactionID |-> Val(1), FromAccountID |-> Val(1),
           ToAccountID |-> Val(1), Amount |-> Val(a), Timestamp |-> Val(d)] :
             a \in {0, 5}, d \in {-1, 1}},
     AuthenticationLog |->
         {[AuthLogID |-> Val(1), CustomerID |-> Val(1), DeviceID |-> Val(1)]}]

\* critical_fields of check_null_values
standards_critical_fields ==
    << [table |-> "Customer", field |-> "NationalID"],
       [table |-> "Customer", field |-> "Name"],
       [table |-> "Customer", field |-> "Username"],
       [table |-> "Account", field |-> "CustomerID"],
       [table |-> "Account", field |-> "Balance"],
       [table |-> "Transaction", field |-> "Amount"],
       [table |-> "Transaction", field |-> "FromAccountID"],
       [table |-> "Transaction", field |-> "ToAccountID"] >>

\* unique_checks of check_duplicate_values
unique_checks ==
    << [table |-> "Customer", field |-> "NationalID"],
       [table |-> "Customer", field |-> "Username"] >>

\* fk_checks of check_referential_integrity
fk_checks ==
    << [table |-> "Device", field |-> "CustomerID",
        parent |-> "Customer", key |-> "CustomerID"],
       [table |-> "Account", field |-> "CustomerID",
        parent |-> "Customer", key |-> "CustomerID"],
       [table |-> "Transaction", field |-> "FromAccountID",
        parent |-> "Account", key |-> "AccountID"],
       [table |-> "Transaction", field |-> "ToAccountID",
        parent |-> "Account", key |-> "AccountID"],
       [table |-> "AuthenticationLog", field |-> "CustomerID",
        parent |-> "Customer", key |-> "CustomerID"],
       [table |-> "AuthenticationLog", field |-> "DeviceID",
        parent |-> "Device", key |-> "DeviceID"] >>

\* an issue of the database checker; the text of the message is its kind,
\* its table and field and its count
StandardsIssue(kind, table, field, count) ==
    IF count > 0
    THEN << [kind |-> kind, table |-> table, field |-> field,
             count |-> count] >>
    ELSE << >>

\* check_null_values, from critical field k on; SELECT COUNT(*) ... WHERE
\* is the length of the list of the selected rows
RECURSIVE CheckNullValues(_, _)
CheckNullValues(db, k) ==
    IF k > Len(standards_critical_fields) THEN << >>
    ELSE LET c == standards_critical_fields[k]
             IsNull(row) == row[c.field] = None
         IN  StandardsIssue("NULL values", c.table, c.field,
                            Len(SelectSeq(db[c.table], IsNull)))
                 \o CheckNullValues(db, k + 1)

\* SELECT field, COUNT(*) FROM table GROUP BY field HAVING COUNT(*) > 1:
\* the values of the groups, NULL being a group of its own
DuplicateGroups(db, table, field) ==
    {v \in {db[table][k][field] : k \in 1..Len(db[table])} :
        Cardinality({k \in 1..Len(db[table]) : db[table][k][field] = v}) > 1}

\* check_duplicate_values, from unique check k on
RECURSIVE CheckDuplicateValues(_, _)
CheckDuplicateValues(db, k) ==
    IF k > Len(unique_checks) THEN << >>
    ELSE LET c == unique_checks[k]
         IN  StandardsIssue("duplicate values", c.table, c.field,
                            Cardinality(DuplicateGroups(db, c.table, c.field)))
                 \o CheckDuplicateValues(db, k + 1)

\* check_referential_integrity, from foreign key k on: the rows of the
\* child whose field is not NULL and joins no row of the parent
RECURSIVE CheckReferentialIntegrity(_, _)
CheckReferentialIntegrity(db, k) ==
    IF k > Len(fk_checks) THEN << >>
    ELSE LET c == fk_checks[k]
             Orphaned(row) ==
                 /\ row[c.field] # None
                 /\ \A j \in 1..Len(db[c.parent]) :
                        db[c.parent][j][c.key] # row[c.field]
         IN  StandardsIssue("orphaned records", c.table, c.field,
                            Len(SelectSeq(db[c.table], Orphaned)))
                 \o CheckReferentialIntegrity(db, k + 1)

\* check_business_rules: Balance < 0, Amount <= 0, Timestamp > NOW(); a
\* comparison with NULL selects no row
CheckBusinessRules(db) ==
    LET Negative(row) == row.Balance # None /\ row.Balance[1] < 0
        ZeroAmount(row) == row.Amount # None /\ row.Amount[1] <= 0
        Future(row) == row.Timestamp # None /\ row.Timestamp[1] > 0
    IN  StandardsIssue("negative balance", "Account", "Balance",
                       Len(SelectSeq(db["Account"], Negative)))
        \o StandardsIssue("zero or negative amount", "Transaction", "Amount",
                          Len(SelectSeq(db["Transaction"], ZeroAmount)))
        \o StandardsIssue("future timestamps", "Transaction", "Timestamp",
                          Len(SelectSeq(db["Transaction"], Future)))

\* json.dumps(issues): the text of the list
JsonDumps(issues) == [json |-> issues]

\* CREATE TABLE IF NOT EXISTS data_quality_log; INSERT INTO data_quality_log
\* (issue_count, issues_json, status); commit
InsertQualityLog(db, issue_count, issues_json, status) ==
    ("data_quality_log" :>
         Append(Get(db, "data_quality_log", << >>),
                [issue_count |-> issue_count, issues_json |-> issues_json,
                 status |-> status]))
        @@ db

\* log_quality_issues(conn), called with issues
LogQualityIssues(db, issues) ==
    IF issues = << >> THEN db
    ELSE InsertQualityLog(db, Len(issues), JsonDumps(issues), "FAILED")

\* a database of at most MaxRecords rows, with or without the table
\* data_quality_log, and a constructed checker
InitStandards ==
    /\ \E nc \in 0..MaxRecords :
       \E nd \in 0..(MaxRecords - nc) :
       \E na \in 0..(MaxRecords - nc - nd) :
       \E nt \in 0..(MaxRecords - nc - nd - na) :
       \E nl \in 0..(MaxRecords - nc - nd - na - nt) :
       \E cs \in [1..nc -> StandardsPool.Customer] :
       \E ds \in [1..nd -> StandardsPool.Device] :
       \E as \in [1..na -> StandardsPool.Account] :
       \E ts \in [1..nt -> StandardsPool.Transaction] :
       \E ls \in [1..nl -> StandardsPool.AuthenticationLog] :
       \E logged \in BOOLEAN :
          LET tables == [Customer |-> cs, Device |-> ds, Account |-> as,
                         Transaction |-> ts, AuthenticationLog |-> ls]
          IN  store = IF logged
                      THEN ("data_quality_log" :> << >>) @@ tables
                      ELSE tables
    /\ data = EmptyDict
    /\ data_keys = << >>
    /\ quality_issues = << >>
    /\ failed_records = EmptyDict
    /\ clean_data = EmptyDict
    /\ ret = "none"
    /\ pc = "standards_constructed"
    /\ run = 1
    /\ NoMonitor
    /\ NoMain

\* run_all_checks(): the four checks append to quality_issues, which only
\* the constructor empties; then the log row is written, or the statement
\* raises, the exception is logged and closing the connection rolls back
RunAllChecks ==
    /\ pc = "standards_constructed"
    /\ run <= MaxPasses
    /\ LET issues == quality_issues
                         \o CheckNullValues(store, 1)
                         \o CheckDuplicateValues(store, 1)
                         \o CheckReferentialIntegrity(store, 1)
                         \o CheckBusinessRules(store)
       IN  /\ quality_issues' = issues
           /\ ret' = IF issues # << >> THEN "False" ELSE "True"
           /\ \E raised \in BOOLEAN :
                 store' = IF raised THEN store
                          ELSE IF issues # << >>
                               THEN LogQualityIssues(store, issues)
                               ELSE InsertQualityLog(store, 0,
                                                     JsonDumps(<< >>), "PASSED")
    /\ run' = run + 1
    /\ UNCHANGED <<data, data_keys, failed_records, clean_data, pc>>
    /\ UNCHANGED monitor_vars
    /\ UNCHANGED main_vars

NextStandards == RunAllChecks

SpecStandards == InitStandards /\ [][NextStandards]_vars

-----------------------------------------------------------------------------
(* The terms of the properties *)

\* check_all_quality has returned and get_clean_data was called after it
Done == pc = "clean_returned" /\ ret # "none"

\* the list under key t of dict d, empty when d has no such key
Records(d, t) == IF t \in DOMAIN d THEN d[t] ELSE << >>

\* the number of occurrences of x in lst
Count(lst, x) == Cardinality({j \in 1..Len(lst) : lst[j] = x})

Position(seq, x) == CHOOSE k \in 1..Len(seq) : seq[k] = x

\* the references between the entities
ForeignKeys ==
    {[data_type |-> "devices", field |-> "CustomerID",
      target |-> "customers", key |-> "CustomerID", table |-> "Customer"],
     [data_type |-> "accounts", field |-> "CustomerID",
      target |-> "customers", key |-> "CustomerID", table |-> "Customer"],
     [data_type |-> "transactions", field |-> "FromAccountID",
      target |-> "accounts", key |-> "AccountID", table |-> "Account"],
     [data_type |-> "transactions", field |-> "ToAccountID",
      target |-> "accounts", key |-> "AccountID", table |-> "Account"],
     [data_type |-> "transactions", field |-> "DeviceID",
      target |-> "devices", key |-> "DeviceID", table |-> "Device"],
     [data_type |-> "auth_logs", field |-> "CustomerID",
      target |-> "customers", key |-> "CustomerID", table |-> "Customer"],
     [data_type |-> "auth_logs", field |-> "DeviceID",
      target |-> "devices", key |-> "DeviceID", table |-> "Device"]}

\* the key field of each data type (the AuthID of an authentication log is
\* written AuthLogID in the batch)
PrimaryKey ==
    [customers |-> "CustomerID", devices |-> "DeviceID",
     accounts |-> "AccountID", transactions |-> "TransactionID",
     auth_logs |-> "AuthLogID"]

\* value is the key of a clean record of the batch or of a persisted row
Resolves(fk, value) ==
    \/ \E k \in 1..Len(Records(clean_data, fk.target)) :
          Get(clean_data[fk.target][k], fk.key, None) = value
    \/ \E row \in store[fk.table] : Val(row[fk.key]) = value

\* a field holds a value: the key is there, not None and, a string, not ''
HasValue(item, field) ==
    /\ field \in DOMAIN item
    /\ item[field] # None
    /\ field \in StringFields => item[field] # EmptyStr

CustomerFieldsValid(c) ==
    \A f \in {"NationalID", "Name", "Username"} : HasValue(c, f)

TransactionFieldsValid(t) ==
    /\ \A f \in {"Amount", "FromAccountID", "ToAccountID"} : HasValue(t, f)
    /\ t.Amount[1] > 0

AccountFieldsValid(a) ==
    /\ \A f \in {"CustomerID", "Balance"} : HasValue(a, f)
    /\ a.Balance[1] >= 0

RefersToAccount(t, a) ==
    /\ HasValue(a, "AccountID")
    /\ \E f \in {"FromAccountID", "ToAccountID"} :
          f \in DOMAIN t /\ t[f] = a.AccountID

\* a string of exactly 12 decimal digits
IsTwelveDigits(s) == Len(s) = 12 /\ \A k \in 1..Len(s) : s[k] \in 0..9

\* c and d hold the same value in NationalID or in Username
SharesField(c, d) ==
    \E f \in {"NationalID", "Username"} :
        HasValue(c, f) /\ HasValue(d, f) /\ c[f] = d[f]

\* the values of NationalID and Username of c
UniqueValues(c) == {c[f] : f \in {f \in {"NationalID", "Username"} : HasValue(c, f)}}

IssueMentions(issue, field) == "field" \in DOMAIN issue /\ issue.field = field

-----------------------------------------------------------------------------
(* The properties *)

\* C1: after check_all_quality and get_clean_data, for every data type the
\* clean list and the failed list hold only input records, no record is in
\* both, and every input record occurs in the two together as often as in
\* the input (also when two input records are equal).
C1_CleanAndFailedPartitionInput ==
    Done =>
        \A t \in DOMAIN data :
            LET clean == clean_data[t]
                failed == Records(failed_records, t)
            IN  /\ \A k \in 1..Len(clean) : In(clean[k], data[t])
                /\ \A k \in 1..Len(failed) : In(failed[k], data[t])
                /\ \A k \in 1..Len(data[t]) :
                      LET r == data[t][k]
                      IN  /\ ~(In(r, clean) /\ In(r, failed))
                          /\ Count(clean, r) + Count(failed, r)
                                = Count(data[t], r)

\* C2: every foreign key of every clean record refers to a clean record of
\* the same batch or to a persisted row.
C2_ForeignKeysResolve ==
    Done =>
        \A fk \in ForeignKeys :
            \A k \in 1..Len(Records(clean_data, fk.data_type)) :
                LET r == clean_data[fk.data_type][k]
                IN  HasValue(r, fk.field) => Resolves(fk, r[fk.field])

\* C3: a transaction that passes its own field checks and refers to an
\* account of the same batch that is valid (its required fields hold
\* values, its Balance is not negative) is clean, whatever the order in
\* which accounts and transactions are gone through.
C3_ForwardReferenceClean ==
    Done =>
        \A k \in 1..Len(Records(data, "transactions")) :
            LET t == data["transactions"][k]
            IN  (/\ TransactionFieldsValid(t)
                 /\ \E j \in 1..Len(Records(data, "accounts")) :
                       /\ RefersToAccount(t, data["accounts"][j])
                       /\ AccountFieldsValid(data["accounts"][j]))
                => In(t, clean_data["transactions"])

\* C3 witness: transactions come before accounts in the batch, and a valid
\* transaction referring to a clean account of the batch is clean.
C3_Witness ==
    /\ Done
    /\ run = 1
    /\ {"transactions", "accounts"} \subseteq DOMAIN data
    /\ Position(data_keys, "transactions") < Position(data_keys, "accounts")
    /\ \E k \in 1..Len(data["transactions"]) :
       \E j \in 1..Len(data["accounts"]) :
          /\ TransactionFieldsValid(data["transactions"][k])
          /\ RefersToAccount(data["transactions"][k], data["accounts"][j])
          /\ AccountFieldsValid(data["accounts"][j])
          /\ In(data["accounts"][j], clean_data["accounts"])
          /\ In(data["transactions"][k], clean_data["transactions"])

\* C4: a batch customer whose NationalID is the NationalID of a persisted
\* customer, and of no other customer of the batch, is in the failed
\* records, and an issue mentions NationalID (stated of a customer whose
\* required fields all hold a value).
C4_StoreDuplicateRejected ==
    Done =>
        \A k \in 1..Len(Records(data, "customers")) :
            LET c == data["customers"][k]
            IN  (/\ CustomerFieldsValid(c)
                 /\ c.NationalID # c.Username
                 /\ \E row \in store.Customer : row.NationalID = c.NationalID[1]
                 /\ \A j \in 1..Len(data["customers"]) :
                       j # k => Get(data["customers"][j], "NationalID", None)
                                   # c.NationalID)
                => /\ In(c, Records(failed_records, "customers"))
                   /\ \E i \in 1..Len(quality_issues) :
                         IssueMentions(quality_issues[i], "NationalID")

\* C5: a customer whose NationalID is a string that is not 12 digits is in
\* the failed records, whatever its other fields.
C5_MalformedNationalIdRejected ==
    Done =>
        \A k \in 1..Len(Records(data, "customers")) :
            LET c == data["customers"][k]
            IN  (HasValue(c, "NationalID") /\ ~IsTwelveDigits(c.NationalID[1]))
                => In(c, Records(failed_records, "customers"))

\* C6: no two clean records of one data type have the same primary key
\* (stated of two records that differ in some other field).
C6_PrimaryKeysUnique ==
    Done =>
        \A t \in DOMAIN clean_data :
            \A i, j \in 1..Len(clean_data[t]) :
                (i < j /\ clean_data[t][i] # clean_data[t][j])
                => Get(clean_data[t][i], PrimaryKey[t], None)
                      # Get(clean_data[t][j], PrimaryKey[t], None)

\* C7: no two clean customers have the same NationalID and no two have the
\* same Username.
C7_CleanCustomersUnique ==
    Done =>
        \A i, j \in 1..Len(Records(clean_data, "customers")) :
            i < j => ~SharesField(clean_data["customers"][i],
                                  clean_data["customers"][j])

\* C7 witness: two different customers that pass the field checks and have
\* the same NationalID or the same Username were checked.
C7_Witness ==
    /\ Done
    /\ run = 1
    /\ \E i, j \in 1..Len(Records(data, "customers")) :
          /\ i < j
          /\ data["customers"][i] # data["customers"][j]
          /\ CustomerFieldsValid(data["customers"][i])
          /\ CustomerFieldsValid(data["customers"][j])
          /\ SharesField(data["customers"][i], data["customers"][j])
          /\ ~In(data["customers"][i], clean_data["customers"])
          /\ ~In(data["customers"][j], clean_data["customers"])

\* C8: a customer that passes the field checks, has the NationalID or the
\* Username of a customer rejected by a field check (and another
\* CustomerID), and has no value in common with any other customer, is
\* clean.
C8_RejectedNotCounted ==
    Done =>
        \A i, j \in 1..Len(Records(data, "customers")) :
            LET rejected == data["customers"][i]
                c == data["customers"][j]
            IN  (/\ i # j
                 /\ ~CustomerFieldsValid(rejected)
                 /\ CustomerFieldsValid(c)
                 /\ IsTwelveDigits(c.NationalID[1])
                 /\ rejected.CustomerID # c.CustomerID
                 /\ SharesField(rejected, c)
                 /\ c.NationalID # c.Username
                 /\ Get(rejected, "NationalID", None) # c.Username
                 /\ Get(rejected, "Username", None) # c.NationalID
                 /\ \A k \in 1..Len(data["customers"]) :
                       k \notin {i, j} =>
                           UniqueValues(data["customers"][k])
                               \cap UniqueValues(c) = {})
                => In(c, clean_data["customers"])

\* C9: every clean account has a Balance >= 0 and every clean transaction
\* an Amount > 0.
C9_CleanAmountsInRange ==
    Done =>
        /\ \A k \in 1..Len(Records(clean_data, "accounts")) :
              LET a == clean_data["accounts"][k]
              IN  HasValue(a, "Balance") /\ a.Balance[1] >= 0
        /\ \A k \in 1..Len(Records(clean_data, "transactions")) :
              LET t == clean_data["transactions"][k]
              IN  HasValue(t, "Amount") /\ t.Amount[1] > 0

\* C9 witness: an account with Balance 0 and a transaction with Amount 0
\* were checked; the account is clean and the transaction is not.
C9_Witness ==
    /\ Done
    /\ run = 1
    /\ \E k \in 1..Len(Records(data, "accounts")) :
          /\ Get(data["accounts"][k], "Balance", None) = Val(0)
          /\ In(data["accounts"][k], clean_data["accounts"])
    /\ \E k \in 1..Len(Records(data, "transactions")) :
          /\ Get(data["transactions"][k], "Amount", None) = Val(0)
          /\ ~In(data["transactions"][k], clean_data["transactions"])

\* C10: check_all_quality and get_clean_data on the clean output of an
\* earlier run report no issue and no failed record, and return every
\* collection as it was given: the same records in the same order.
C10_CleanOutputIsFixedPoint ==
    (Done /\ run = 2) =>
        /\ quality_issues = << >>
        /\ \A t \in DOMAIN failed_records : failed_records[t] = << >>
        /\ DOMAIN clean_data = DOMAIN data
        /\ \A t \in DOMAIN data : clean_data[t] = data[t]

\* C10 witness: the second run was made on a clean output that holds a
\* customer, an account or a transaction.
C10_Witness ==
    /\ Done
    /\ run = 2
    /\ \E t \in {"customers", "accounts", "transactions"} :
          Records(data, t) # << >>

-----------------------------------------------------------------------------
(* The field checks: completion and the issues of one record *)

\* the required fields of the data types that are checked
RequiredFields ==
    [customers |-> {"NationalID", "Name", "Username"},
     accounts |-> {"CustomerID", "Balance"},
     transactions |-> {"Amount", "FromAccountID", "ToAccountID"}]

\* the issues that the field checks append (the others report duplicates)
FieldCheckIssues ==
    {k \in 1..Len(quality_issues) : quality_issues[k].kind # "Duplicate"}

\* the records of the data types that are checked, by position
CheckedRecords ==
    UNION {{<<t, k>> : k \in 1..Len(data[t])} :
              t \in DOMAIN RequiredFields \cap DOMAIN data}

\* C11: check_all_quality never raises because of bad data: the call
\* completes, and every record with a required field missing, null or blank
\* (an account whose Balance is null, a transaction whose Amount is null) is
\* reported by an issue on that field and is among the failed records.
C11_CheckNeverRaises ==
    /\ pc # "check_raised"
    /\ ret # "none" =>
          \A tk \in CheckedRecords :
              LET t == tk[1]
                  item == data[t][tk[2]]
              IN  \A f \in RequiredFields[t] :
                      ~HasValue(item, f) =>
                          /\ In(item, Records(failed_records, t))
                          /\ \E k \in 1..Len(quality_issues) :
                                quality_issues[k] = NullIssue(t, f)

\* C19: the field checks stop at the first failure of a record, so they
\* append at most one issue for each record of the batch.
C19_OneFieldIssuePerRecord ==
    ret # "none" => Cardinality(FieldCheckIssues) <= Cardinality(CheckedRecords)

-----------------------------------------------------------------------------
(* The terms of the properties of the monitor *)

RiskRecords(t) == Records(risk_data, t)

\* the customers of the batch and the days of its transactions
RiskCustomerIds ==
    {RiskRecords("customers")[k].CustomerID :
        k \in 1..Len(RiskRecords("customers"))}

DayOf(day) == <<2, 0, 2, 4, 45, 0, 1, 45, 0, day>>

RiskDays == {DayOf(1), DayOf(2)}

\* the customer who holds the account that a transaction is made from,
\* None when the batch has no such account
Originator(txn) ==
    LET S == {k \in 1..Len(RiskRecords("accounts")) :
                 /\ "FromAccountID" \in DOMAIN txn
                 /\ RiskRecords("accounts")[k].AccountID = txn.FromAccountID}
    IN  IF S = {} THEN None
        ELSE RiskRecords("accounts")[CHOOSE k \in S : TRUE].CustomerID

\* the calendar day of a transaction, None when it has no Timestamp
TxnDay(txn) ==
    IF "Timestamp" \in DOMAIN txn THEN SubSeq(txn.Timestamp[1], 1, 10)
    ELSE None

\* the total of the amounts of customer c on a day over the first k
\* transactions of the batch
RECURSIVE RunningTotal(_, _, _)
RunningTotal(c, day, k) ==
    IF k = 0 THEN 0
    ELSE LET txn == RiskRecords("transactions")[k]
         IN  RunningTotal(c, day, k - 1)
                 + (IF Originator(txn) = c /\ TxnDay(txn) = day
                    THEN txn.Amount[1] ELSE 0)

\* the transactions at which the running total is over the daily limit
OverLimitAt(c, day) ==
    {k \in 1..Len(RiskRecords("transactions")) :
        RunningTotal(c, day, k) > DailyLimit}

\* customer c has a successful authentication by a strong method
HasStrongAuth(c) ==
    \E k \in 1..Len(RiskRecords("auth_logs")) :
        LET log == RiskRecords("auth_logs")[k]
        IN  /\ log.CustomerID = c
            /\ log.AuthStatus = Val("SUCCESS")
            /\ log.AuthMethod \in {Val("Biometric"), Val("OTP")}

\* customer c has a successful authentication by a strong method on a day
HasStrongAuthOn(c, day) ==
    \E k \in 1..Len(RiskRecords("auth_logs")) :
        LET log == RiskRecords("auth_logs")[k]
        IN  /\ log.CustomerID = c
            /\ log.AuthStatus = Val("SUCCESS")
            /\ log.AuthMethod \in {Val("Biometric"), Val("OTP")}
            /\ SubSeq(log.Timestamp[1], 1, 10) = day

\* the alerts of a rule
AlertsOf(rule) ==
    {i \in 1..Len(violations) : violations[i].RuleCode = rule}

\* the number of daily-limit alerts on customer c and a day
DailyAlerts(c, day) ==
    Cardinality({i \in AlertsOf("RULE_004") :
                    /\ violations[i].CustomerID = c
                    /\ violations[i].Date = Val(day)})

\* the number of alerts of a rule on a transaction
TxnAlerts(rule, txn) ==
    Cardinality({i \in AlertsOf(rule) :
                    violations[i].TransactionID = txn.TransactionID})

-----------------------------------------------------------------------------
(* The properties of the monitor *)

\* C12: for a customer without a successful strong authentication and a
\* calendar day, each pass of check_all_risks emits exactly one daily-limit
\* alert when the running total of the customer's amounts of that day, taken
\* in batch order, goes over the daily limit, however many transactions come
\* after that, and none when it never does.
C12_OneDailyAlertOnCrossing ==
    \A c \in RiskCustomerIds : \A day \in RiskDays :
        ~HasStrongAuth(c) =>
            DailyAlerts(c, day) =
                IF OverLimitAt(c, day) # {} THEN passes ELSE 0

\* C12 witness: after one pass, the running total of a customer without
\* strong authentication went over the limit at a transaction that is not
\* the last of that customer and day, and one alert was emitted.
C12_Witness ==
    /\ passes = 1
    /\ \E c \in RiskCustomerIds : \E day \in RiskDays :
          /\ ~HasStrongAuth(c)
          /\ DailyAlerts(c, day) = 1
          /\ \E k \in OverLimitAt(c, day) :
                \E j \in (k + 1)..Len(RiskRecords("transactions")) :
                    LET txn == RiskRecords("transactions")[j]
                    IN  Originator(txn) = c /\ TxnDay(txn) = day

\* C13: a customer with a successful strong authentication (Biometric or
\* OTP) on a day gets no daily-limit alert for that day, also when the
\* total of the day is over the daily limit.
C13_StrongAuthSuppressesDailyAlert ==
    \A c \in RiskCustomerIds : \A day \in RiskDays :
        HasStrongAuthOn(c, day) => DailyAlerts(c, day) = 0

\* timestamp a is later than timestamp b, both of the same length
Later(a, b) ==
    \E i \in 1..Len(a) :
        /\ a[i] > b[i]
        /\ \A j \in 1..(i - 1) : a[j] = b[j]

\* the successful authentications of customer c on device dv, and the most
\* recent of them
PairAuths(c, dv) ==
    {k \in 1..Len(RiskRecords("auth_logs")) :
        LET log == RiskRecords("auth_logs")[k]
        IN  /\ log.CustomerID = c
            /\ log.DeviceID = dv
            /\ log.AuthStatus = Val("SUCCESS")}

MostRecent(S) ==
    {k \in S : \A j \in S :
        ~Later(RiskRecords("auth_logs")[j].Timestamp[1],
               RiskRecords("auth_logs")[k].Timestamp[1])}

\* a transaction is of high value and the most recent successful
\* authentication of its customer on its device is not strong, or there is
\* none
HighValueWithoutStrongAuth(txn) ==
    /\ txn.Amount[1] > HighValueLimit
    /\ LET S == PairAuths(Originator(txn), txn.DeviceID)
       IN  \/ S = {}
           \/ \E k \in MostRecent(S) :
                 RiskRecords("auth_logs")[k].AuthMethod
                     \notin {Val("Biometric"), Val("OTP")}

\* C14: each pass emits a HIGH alert of rule 1 on a transaction exactly when
\* its Amount is over the high-value limit and the most recent successful
\* authentication of the pair (originating customer, DeviceID of the
\* transaction) used a method other than Biometric and OTP, or the pair has
\* none; authentications of the customer on other devices do not count.
C14_HighValueAlertByCustomerAndDevice ==
    \A k \in 1..Len(RiskRecords("transactions")) :
        LET txn == RiskRecords("transactions")[k]
        IN  /\ TxnAlerts("RULE_001", txn) =
                   IF HighValueWithoutStrongAuth(txn) THEN passes ELSE 0
            /\ \A i \in AlertsOf("RULE_001") : violations[i].RiskLevel = "HIGH"

\* the device that a transaction names is in the batch and is not verified
OwnDeviceUnverified(txn) ==
    \E k \in 1..Len(RiskRecords("devices")) :
        LET dv == RiskRecords("devices")[k]
        IN  dv.DeviceID = txn.DeviceID /\ ~dv.IsVerified[1]

\* C15: each pass emits a MEDIUM alert of rule 2 on a transaction exactly
\* when the device named by the DeviceID of the transaction is not verified,
\* whatever the amount and whatever the other devices of the customer.
C15_UnverifiedDeviceAlertByOwnDevice ==
    \A k \in 1..Len(RiskRecords("transactions")) :
        LET txn == RiskRecords("transactions")[k]
        IN  /\ TxnAlerts("RULE_002", txn) =
                   IF OwnDeviceUnverified(txn) THEN passes ELSE 0
            /\ \A i \in AlertsOf("RULE_002") :
                   violations[i].RiskLevel = "MEDIUM"

\* the batch has the account that a transaction is made from, with a Balance
\* less than the Amount
BalanceBelowAmount(txn) ==
    \E k \in 1..Len(RiskRecords("accounts")) :
        LET a == RiskRecords("accounts")[k]
        IN  /\ a.AccountID = txn.FromAccountID
            /\ "Balance" \in DOMAIN a
            /\ a.Balance[1] < txn.Amount[1]

\* C16: each pass emits a HIGH alert of rule 3 on a transaction exactly when
\* the Balance of the account named by FromAccountID is less than the
\* Amount.
C16_InsufficientBalanceAlert ==
    \A k \in 1..Len(RiskRecords("transactions")) :
        LET txn == RiskRecords("transactions")[k]
        IN  /\ TxnAlerts("RULE_003", txn) =
                   IF BalanceBelowAmount(txn) THEN passes ELSE 0
            /\ \A i \in AlertsOf("RULE_003") : violations[i].RiskLevel = "HIGH"

\* the number of failed entries of customer c in the authentication logs
FailedEntries(c) ==
    Cardinality({k \in 1..Len(RiskRecords("auth_logs")) :
                    LET log == RiskRecords("auth_logs")[k]
                    IN  log.CustomerID = c /\ log.AuthStatus = Val("FAIL")})

\* the alerts of rule 5 on customer c
FailureAlerts(c) ==
    {i \in AlertsOf("RULE_005") : violations[i].CustomerID = c}

\* C17: for every customer, each pass emits exactly one MEDIUM alert of rule
\* 5 when the authentication logs hold 3 or more failed entries of the
\* customer, whatever their number, and none when they hold fewer than 3.
C17_OneAlertForRepeatedFailures ==
    \A c \in RiskCustomerIds :
        /\ Cardinality(FailureAlerts(c)) =
               IF FailedEntries(c) >= 3 THEN passes ELSE 0
        /\ \A i \in FailureAlerts(c) : violations[i].RiskLevel = "MEDIUM"

\* C17 witness: after one pass, a customer with more than 3 failed entries
\* has one alert.
C17_Witness ==
    /\ passes = 1
    /\ \E c \in RiskCustomerIds :
          FailedEntries(c) > 3 /\ Cardinality(FailureAlerts(c)) = 1

\* C18: whatever alerts were emitted, over one pass or several on one
\* monitor, the i-th alert of the violations list has ViolationID i, and the
\* next identifier is one more than the number of alerts.
C18_ViolationIdsFollowListOrder ==
    /\ \A i \in 1..Len(violations) : violations[i].ViolationID = i
    /\ violation_id = Len(violations) + 1

\* C18 witness: a second pass has added alerts to those of the first.
C18_Witness ==
    /\ passes = 2
    /\ Len(violations) >= 4
    /\ \E i \in 1..Len(violations) : \E j \in (i + 1)..Len(violations) :
          violations[i].RuleCode # violations[j].RuleCode

-----------------------------------------------------------------------------
(* The properties of the quality run *)

\* the run on the directory has ended
MainExited == exit_status # None

\* C20: when the quality run on a directory has ended, no file of a data
\* type left in the directory holds a record that the run rejected, also
\* when an input file could not be deleted and when every record of a data
\* type was rejected.
C20_NoRejectedRecordLeftInDirectory ==
    MainExited =>
        \A t \in DOMAIN files \cap SetOf(DataTypes) :
            \A k \in 1..Len(files[t]) :
                ~In(files[t][k], Records(failed_records, t))

-----------------------------------------------------------------------------
(* The duplicates of customers and the input of the checker *)

\* C28: when the check has returned, two customer records of the batch that
\* share a NationalID or share a Username are both among the failed
\* customers, the first occurrence as well as the later one, and after
\* get_clean_data neither is in the clean output.
C28_AllDuplicatesFailed ==
    ret # "none" =>
        \A i, j \in 1..Len(Records(data, "customers")) :
            (i < j /\ SharesField(data["customers"][i], data["customers"][j]))
            => /\ In(data["customers"][i], failed_records["customers"])
               /\ In(data["customers"][j], failed_records["customers"])
               /\ Done =>
                     /\ ~In(data["customers"][i], clean_data["customers"])
                     /\ ~In(data["customers"][j], clean_data["customers"])

\* C28 witness: the check has returned on two different customers that pass
\* the field checks and share a NationalID or a Username; the first is
\* among the failed customers.
C28_Witness ==
    /\ ret # "none"
    /\ run = 1
    /\ \E i, j \in 1..Len(Records(data, "customers")) :
          /\ i < j
          /\ data["customers"][i] # data["customers"][j]
          /\ CustomerFieldsValid(data["customers"][i])
          /\ CustomerFieldsValid(data["customers"][j])
          /\ SharesField(data["customers"][i], data["customers"][j])
          /\ In(data["customers"][i], failed_records["customers"])

\* customer k of the batch holds value in field
HoldsValue(k, field, value) ==
    /\ HasValue(data["customers"][k], field)
    /\ data["customers"][k][field] = value

\* C29: a duplicate is reported only for a value that two different customer
\* records of the batch hold in the same field, and a customer that passes
\* the field checks is rejected only when another record holds its
\* NationalID as NationalID or its Username as Username.
C29_DuplicateOnlyInSameField ==
    ret # "none" =>
        /\ \A n \in 1..Len(quality_issues) :
              quality_issues[n].kind = "Duplicate" =>
                  \E i, j \in 1..Len(Records(data, "customers")) :
                      /\ i < j
                      /\ HoldsValue(i, quality_issues[n].field,
                                    quality_issues[n].value)
                      /\ HoldsValue(j, quality_issues[n].field,
                                    quality_issues[n].value)
        /\ \A j \in 1..Len(Records(data, "customers")) :
              (/\ CustomerFieldsValid(data["customers"][j])
               /\ In(data["customers"][j], failed_records["customers"]))
              => \E i \in 1..Len(data["customers"]) :
                    /\ i # j
                    /\ SharesField(data["customers"][i], data["customers"][j])

\* C30: check_all_quality and get_clean_data leave self.data as it was, the
\* collections, their order and their records, and each failed record is a
\* record of the input of its data type, unmodified.
C30_InputNotModified ==
    /\ [][run' = run => (data' = data /\ data_keys' = data_keys)]_vars
    /\ [](\A t \in DOMAIN failed_records :
              \A k \in 1..Len(failed_records[t]) :
                  In(failed_records[t][k], Records(data, t)))

\* C30 witness: check_all_quality and get_clean_data were called on a batch
\* with a rejected record and a clean record.
C30_Witness ==
    /\ Done
    /\ run = 1
    /\ \E t \in DOMAIN failed_records : failed_records[t] # << >>
    /\ \E t \in DOMAIN clean_data : clean_data[t] # << >>

-----------------------------------------------------------------------------
(* The order of the alerts *)

RuleNumber ==
    [RULE_001 |-> 1, RULE_002 |-> 2, RULE_003 |-> 3, RULE_004 |-> 4,
     RULE_005 |-> 5]

\* the alerts of rules 1 to 4
TransactionRuleAlerts ==
    {i \in 1..Len(violations) : RuleNumber[violations[i].RuleCode] <= 4}

\* the position in the batch of the transaction that triggered alert i: the
\* transaction of the alert, for a daily-limit alert the first transaction
\* at which the running total is over the limit (0 when there is none)
TriggeredBy(i) ==
    IF violations[i].RuleCode = "RULE_004"
    THEN LET over == OverLimitAt(violations[i].CustomerID,
                                 violations[i].Date[1])
         IN  IF over = {} THEN 0
             ELSE CHOOSE k \in over : \A j \in over : k <= j
    ELSE violations[i].TransactionID[1]

\* C27: in the alerts of one pass, the alerts of rules 1 to 4 are in the
\* order of the transactions that triggered them and, for one transaction,
\* in rule order; the daily-limit alert counts for the transaction at which
\* the running total went over the limit.
C27_AlertsInTransactionOrder ==
    passes = 1 =>
        \A i, j \in TransactionRuleAlerts :
            i < j =>
                \/ TriggeredBy(i) < TriggeredBy(j)
                \/ /\ TriggeredBy(i) = TriggeredBy(j)
                   /\ RuleNumber[violations[i].RuleCode]
                          < RuleNumber[violations[j].RuleCode]

(***************************************************************************)
(* Properties of the pipeline: the quality run and then the risk run on    *)
(* the same directory.                                                     *)
(***************************************************************************)

\* the risk run has ended after a quality run on the directory
RiskExited == dir_exists /\ exit_status = Val(0) /\ risk_exit_status # None

\* C21: in a pipeline run the risk stage evaluates no rejected transaction,
\* and every alert that has a TransactionID refers to a transaction of the
\* clean partition.
C21_RiskOnlyOnCleanTransactions ==
    RiskExited =>
        /\ \A k \in 1..Len(Records(risk_data, "transactions")) :
               ~In(risk_data["transactions"][k],
                   Records(failed_records, "transactions"))
        /\ \A i \in 1..Len(violations) :
               "TransactionID" \in DOMAIN violations[i] =>
                   \E k \in 1..Len(Records(clean_data, "transactions")) :
                       clean_data["transactions"][k].TransactionID
                           = violations[i].TransactionID

\* C26: save_clean_data writes a file, holding the clean records, for every
\* entity type that has a clean record, and writes no file for a type whose
\* clean list is empty: the entry of the directory for that type is left as
\* it was; the run still ends with status 0.
C26_OneFilePerNonEmptyType ==
    [][(exit_status = None /\ exit_status' = Val(0)) =>
          \A t \in DOMAIN clean_data :
              /\ clean_data[t] # << >> =>
                     t \in DOMAIN files' /\ files'[t] = clean_data[t]
              /\ clean_data[t] = << >> =>
                     /\ t \in DOMAIN files' <=> t \in DOMAIN files
                     /\ t \in DOMAIN files => files'[t] = files[t]]_vars

\* a run has saved the clean records of one type and no file for another
\* type, all of whose records were rejected
C26_Witness ==
    /\ exit_status = Val(0)
    /\ \E t, u \in DOMAIN clean_data :
           /\ clean_data[t] = << >> /\ t \notin DOMAIN files
           /\ clean_data[u] # << >> /\ u \in DOMAIN files
           /\ files[u] = clean_data[u]

\* C24: when the input directory exists the quality run ends with status
\* 0, whether or not records were rejected, and by then the clean records
\* of every type that has some are in the directory.
C24_ExitZeroWhenDirectoryExists ==
    (dir_exists /\ MainExited) =>
        /\ exit_status = Val(0)
        /\ \A t \in DOMAIN clean_data :
               clean_data[t] # << >> =>
                   t \in DOMAIN files /\ files[t] = clean_data[t]

\* C22: when at least one entity collection was loaded, the quality run
\* that has ended with status 0 has written the clean partition and the
\* failure report, and the issues list of the report holds every issue of
\* the run; also when only devices or auth_logs were loaded and when no
\* record was rejected.
C22_ReportAlwaysWritten ==
    (exit_status = Val(0) /\ data # EmptyDict) =>
        /\ \A t \in DOMAIN clean_data :
               clean_data[t] # << >> =>
                   t \in DOMAIN files /\ files[t] = clean_data[t]
        /\ "failed_records" \in DOMAIN files
        /\ files["failed_records"].issues = quality_issues

\* C23: when the input directory does not exist, each entry point, the
\* quality run and the risk run, ends with a nonzero exit status, and no
\* file has been read, deleted or written.
C23_MissingDirectoryExitsNonZero ==
    ~dir_exists =>
        /\ exit_status # None => exit_status # Val(0)
        /\ risk_exit_status # None => risk_exit_status # Val(0)
        /\ files = EmptyDict /\ data = EmptyDict /\ risk_data = EmptyDict

(***************************************************************************)
(* Properties of the validation entry points and the store.                *)
(***************************************************************************)

\* C25: no validation entry point writes to the store: no step of
\* check_all_quality and no step of run_all_checks creates a table or
\* inserts, updates or deletes a row.
C25_ValidationNeverWritesStore == [][store' = store]_vars

====
